---- MODULE Spec2Model ----
(***************************************************************************)
(* Navigation sidebar (AppSidebar over the module-level `items` registry)  *)
(* and the dashboard layout route (RouteComponent with its Outlet).        *)
(*                                                                         *)
(* The sidebar is a pure map from the registry to menu items, each a       *)
(* router Link.  The Link is rendered as an anchor element: a click event  *)
(* on it asks the router to navigate to its `to` prop.  The component      *)
(* installs no key handler of its own, so keyboard input reaches the       *)
(* anchor's platform behaviour only: Enter on a focused anchor dispatches  *)
(* a click, Space does not.                                                *)
(***************************************************************************)
EXTENDS Naturals, Sequences

\* ---------------------------------------------------------------- bounds
MaxInputs == 2      \* user input events (clicks, key presses) per behaviour
MaxLen    == 2      \* longest registry of the generalised specification

\* ------------------------------------------------------------- constants
Missing == "undefined"          \* a property absent from an object literal

\* const items = [ {title, url, icon}, ... ]
ItemsMutSwapped ==
  << [title |-> "Dashboard", url |-> "/dashboard", icon |-> "Inbox"],
     [title |-> "Home",      url |-> "/",          icon |-> "Home"],
     [title |-> "Settings",  url |-> "/settings",  icon |-> "Settings"] >>

Items ==
  << [title |-> "Home",      url |-> "/",          icon |-> "Home"],
     [title |-> "Dashboard", url |-> "/dashboard", icon |-> "Inbox"],
     [title |-> "Settings",  url |-> "/settings",  icon |-> "Settings"] >>

\* createFileRoute('/dashboard')
DashboardPath == "/dashboard"

\* the frame text of RouteComponent
FrameText == "Dashboard Layout"

\* what the router can hand to <Outlet />
NoChild  == "none"
Children == {"DashboardIndex"}

\* location of a freshly started router
StartPath == "/"

\* the keys a user may press on a focused menu item
Keys == {"Enter", "Space"}

\* Entries the generalised specification builds registries from: the
\* well-formed ones, one that repeats a title under another path, and two
\* object literals with a property left out.
GenEntries ==
  { [title |-> "Home",      url |-> "/",          icon |-> "Home"],
    [title |-> "Dashboard", url |-> "/dashboard", icon |-> "Inbox"],
    [title |-> "Home",      url |-> "/settings",  icon |-> "Settings"],
    [title |-> Missing,     url |-> "/settings",  icon |-> "Settings"],
    [title |-> "Settings",  url |-> Missing,      icon |-> "Settings"] }

GenRegistries == UNION { [1..n -> GenEntries] : n \in 0..MaxLen }

VARIABLES
  items,        \* the navigation registry (module-level array)
  mounted,      \* AppSidebar has been rendered
  rendered,     \* the menu items of the last AppSidebar render
  focus,        \* index of the focused menu item, 0 when none
  inputs,       \* user input events delivered to menu items, in order
  navRequests,  \* navigation requests handed to the router, in order
  resolved,     \* how many of navRequests the router has resolved
  location,     \* the router's current location
  matchedChild, \* the child route matched beneath the layout
  layoutOut     \* output of the mounted RouteComponent: <<>> or <<node>>

vars == << items, mounted, rendered, focus, inputs, navRequests, resolved,
           location, matchedChild, layoutOut >>

\* ------------------------------------------------------- pure rendering

\* <SidebarMenuItem key={item.title}> <Link to={item.url}>
\*    <item.icon /> <span>{item.title}</span>
MenuItemMutToTitle(item) ==
  [key |-> item.title, to |-> item.title, icon |-> item.icon,
   label |-> item.title]

MenuItem(item) ==
  [key |-> item.title, to |-> item.url, icon |-> item.icon,
   label |-> item.title]

\* items.map((item) => ...)
SidebarMenuMutReversed(reg) ==
  [i \in 1..Len(reg) |-> MenuItem(reg[Len(reg) + 1 - i])]

SidebarMenuMutPlaceholder(reg) ==
  IF Len(reg) = 0
    THEN << [key |-> "empty", to |-> Missing, icon |-> Missing,
             label |-> "No items"] >>
    ELSE [i \in 1..Len(reg) |-> MenuItem(reg[i])]

SidebarMenu(reg) == [i \in 1..Len(reg) |-> MenuItem(reg[i])]

\* RouteComponent: frame text, then a div holding <Outlet />
RouteComponentMutNoOutlet(child) ==
  [frame |-> FrameText, slot |-> <<>>]

RouteComponent(child) ==
  [frame |-> FrameText,
   slot  |-> IF child = NoChild THEN <<>> ELSE <<child>>]

\* ----------------------------------------------------------------- Init

InitRest ==
  /\ mounted = FALSE
  /\ rendered = <<>>
  /\ focus = 0
  /\ inputs = <<>>
  /\ navRequests = <<>>
  /\ resolved = 0
  /\ location = StartPath
  /\ matchedChild = NoChild
  /\ layoutOut = <<>>

Init    == items = Items /\ InitRest
InitGen == items \in GenRegistries /\ InitRest

\* -------------------------------------------------------------- actions

\* A render pass of AppSidebar.
RenderSidebarMutSorts ==
  /\ items' = [i \in 1..Len(items) |-> items[Len(items) + 1 - i]]
  /\ mounted' = TRUE
  /\ rendered' = SidebarMenu(items')
  /\ UNCHANGED << focus, inputs, navRequests, resolved, location, matchedChild,
                  layoutOut >>

RenderSidebar ==
  /\ mounted' = TRUE
  /\ rendered' = SidebarMenu(items)
  /\ UNCHANGED << items, focus, inputs, navRequests, resolved, location,
                  matchedChild, layoutOut >>

\* Keyboard focus moves to menu item i (Tab / Shift-Tab).
Focus(i) ==
  /\ mounted
  /\ i \in 1..Len(rendered)
  /\ focus' = i
  /\ UNCHANGED << items, mounted, rendered, inputs, navRequests, resolved,
                  location, matchedChild, layoutOut >>

\* Pointer click on menu item i: the Link navigates to its `to` prop.
Click(i) ==
  /\ mounted
  /\ i \in 1..Len(rendered)
  /\ Len(inputs) < MaxInputs
  /\ focus' = i
  /\ inputs' = Append(inputs, [item |-> i, method |-> "click"])
  /\ navRequests' = Append(navRequests, rendered[i].to)
  /\ UNCHANGED << items, mounted, rendered, resolved, location,
                  matchedChild, layoutOut >>

\* A key pressed while a menu item has focus.  No onKeyDown is installed,
\* so only the anchor's own activation (Enter) reaches the Link.
KeyDown(key) ==
  /\ mounted
  /\ focus \in 1..Len(rendered)
  /\ Len(inputs) < MaxInputs
  /\ inputs' = Append(inputs, [item |-> focus, method |-> key])
  /\ navRequests' = IF key = "Enter"
                      THEN Append(navRequests, rendered[focus].to)
                      ELSE navRequests
  /\ UNCHANGED << items, mounted, rendered, focus, resolved, location,
                  matchedChild, layoutOut >>

\* The router resolves the oldest unresolved navigation request: it moves
\* the location, matches the child beneath the layout and drops the old
\* layout output, to be rendered again.
RouterResolve(child) ==
  /\ resolved < Len(navRequests)
  /\ LET to == navRequests[resolved + 1]
         loc == IF to = Missing THEN location ELSE to
     IN  /\ location' = loc
         /\ child \in (IF loc = DashboardPath THEN Children \cup {NoChild}
                                               ELSE {NoChild})
         /\ matchedChild' = child
  /\ resolved' = resolved + 1
  /\ layoutOut' = <<>>
  /\ UNCHANGED << items, mounted, rendered, focus, inputs, navRequests >>

\* A render pass of the layout route's component.
RenderLayoutMutRedirects ==
  /\ location = DashboardPath
  /\ layoutOut' = << RouteComponent(matchedChild) >>
  /\ location' = StartPath
  /\ UNCHANGED << items, mounted, rendered, focus, inputs, navRequests,
                  resolved, matchedChild >>

RenderLayout ==
  /\ location = DashboardPath
  /\ layoutOut' = << RouteComponent(matchedChild) >>
  /\ UNCHANGED << items, mounted, rendered, focus, inputs, navRequests,
                  resolved, location, matchedChild >>

Next ==
  \/ RenderSidebar
  \/ \E i \in 1..Len(rendered) : Focus(i)
  \/ \E i \in 1..Len(rendered) : Click(i)
  \/ \E key \in Keys : KeyDown(key)
  \/ \E child \in Children \cup {NoChild} : RouterResolve(child)
  \/ RenderLayout

Spec    == Init /\ [][Next]_vars
SpecGen == InitGen /\ [][Next]_vars

\* ------------------------------------------------------------ properties

\* input events that activate a link: a click, or Enter on the focused anchor
IsActivation(e) == e.method \in {"click", "Enter"}
Activations == SelectSeq(inputs, IsActivation)

\* C1: every input on a menu item made by one of the three methods (pointer
\* click, Enter while focused, Space while focused) issues exactly one
\* navigation request, to the target path of the entry the item came from.
C1_EveryMethodNavigatesOnce ==
  /\ Len(navRequests) = Len(inputs)
  /\ \A k \in 1..Len(inputs) :
       k <= Len(navRequests) => navRequests[k] = items[inputs[k].item].url

\* C2: for a non-empty registry the sidebar renders one menu item per entry,
\* the i-th item from the i-th entry.
C2_OneItemPerEntryInOrder ==
  (mounted /\ Len(items) > 0) =>
     /\ Len(rendered) = Len(items)
     /\ \A i \in 1..Len(items) :
          /\ rendered[i].label = items[i].title
          /\ rendered[i].to = items[i].url
          /\ rendered[i].icon = items[i].icon

C2_Witness ==
  /\ mounted
  /\ Len(items) = 2
  /\ items[1] # items[2]
  /\ Len(rendered) = 2

\* C3: the layout's output holds the frame text "Dashboard Layout" and one
\* slot entry per child the router matched: exactly that child, or nothing
\* when no child is matched.
C3_FrameAndSlot ==
  layoutOut # <<>> =>
     /\ Len(layoutOut) = 1
     /\ layoutOut[1].frame = "Dashboard Layout"
     /\ matchedChild = NoChild => layoutOut[1].slot = <<>>
     /\ matchedChild # NoChild => layoutOut[1].slot = << matchedChild >>

C3_Witness ==
  /\ layoutOut # <<>>
  /\ matchedChild \in Children
  /\ layoutOut[1].slot = << matchedChild >>

\* the layout mounted with no matched child: frame and an empty slot
C3_WitnessEmpty ==
  /\ layoutOut # <<>>
  /\ matchedChild = NoChild

\* C4: the identity keys of the rendered items are pairwise distinct whenever
\* the registry's entries are pairwise different, shared titles included.
C4_KeysDistinct ==
  (mounted /\ \A i, j \in 1..Len(items) : i # j => items[i] # items[j]) =>
     \A i, j \in 1..Len(rendered) : i # j => rendered[i].key # rendered[j].key

\* C5: for an empty registry the render completes with no menu item at all.
C5_EmptyRegistryEmptyMenu ==
  (mounted /\ items = <<>>) => rendered = <<>>

C5_Witness ==
  /\ mounted
  /\ items = <<>>

\* C6: every navigation request ever issued goes to the target path of some
\* registry entry.
C6_RequestsAreRegistryPaths ==
  \A k \in 1..Len(navRequests) :
     \E i \in 1..Len(items) : navRequests[k] = items[i].url

C6_Witness ==
  /\ Len(navRequests) >= 2
  /\ navRequests[1] # navRequests[2]
  /\ resolved >= 1

\* C7: no step changes the registry.
C7_RegistryNeverChanges == [][items' = items]_vars

C7_Witness ==
  /\ items = Items
  /\ mounted
  /\ Len(navRequests) >= 1
  /\ resolved >= 1
  /\ layoutOut # <<>>

\* C8: the location changes only in a step in which the router resolves a
\* navigation request; such a step renders neither component.
C8_OnlyRouterMovesLocation ==
  [][location' # location =>
       /\ resolved' = resolved + 1
       /\ location' = navRequests[resolved']
       /\ rendered' = rendered
       /\ mounted' = mounted
       /\ layoutOut' = <<>>]_vars

C8_Witness ==
  /\ location = DashboardPath
  /\ resolved >= 1
  /\ mounted
  /\ layoutOut # <<>>

\* C9: with the program's registry the sidebar shows Home, Dashboard,
\* Settings in that order, linking to /, /dashboard, /settings (titles and
\* paths pairwise unique), and activating the second item requests
\* /dashboard.
C9_ProgramSidebar ==
  /\ mounted =>
       /\ Len(rendered) = 3
       /\ rendered[1].label = "Home"      /\ rendered[1].to = "/"
       /\ rendered[2].label = "Dashboard" /\ rendered[2].to = "/dashboard"
       /\ rendered[3].label = "Settings"  /\ rendered[3].to = "/settings"
       /\ \A i, j \in 1..3 : i # j =>
            /\ rendered[i].label # rendered[j].label
            /\ rendered[i].to # rendered[j].to
  /\ Len(navRequests) = Len(Activations)
  /\ \A k \in 1..Len(Activations) :
       (k <= Len(navRequests) /\ Activations[k].item = 2) =>
          navRequests[k] = "/dashboard"

C9_Witness ==
  /\ mounted
  /\ \E k \in 1..Len(Activations) :
       /\ Activations[k].item = 2
       /\ k <= Len(navRequests)
       /\ navRequests[k] = "/dashboard"

\* C10: no sidebar render runs over a registry holding an entry without a
\* title or without a target path.
C10_NoRenderOverMalformed ==
  mounted =>
     \A i \in 1..Len(items) :
        items[i].title # Missing /\ items[i].url # Missing
====
